---- MODULE Spec2Model ----
(***************************************************************************)
(* A model of src/template.py: the in-memory repository, the Subject /     *)
(* observer list, the ConfigManager singleton, UserService and the         *)
(* SystemFacade.                                                           *)
(*                                                                         *)
(* Strings whose characters the code inspects (name, email) are tuples of  *)
(* one-character strings; identifiers, which the code only compares, are   *)
(* TLA+ strings.  Objects live in a heap and are named by their handle     *)
(* (index in the heap); handle 0 is Python's None.                         *)
(***************************************************************************)
EXTENDS Integers, Sequences, FiniteSets, TLC

VARIABLES
    heap,        \* entity objects: heap[h] is the User with handle h
    storage,     \* InMemoryRepository._storage: insertion-ordered dict id -> handle
    clock,       \* the last value datetime.now() returned
    observers,   \* Subject._observers
    sent,        \* the calls notification_service.send has received, in order
    delivered,   \* the calls observer.update has received, in order
    last,        \* the last call made: its name, arguments and outcome
    cfgInstance, \* ConfigManager._instance (0 is None)
    cfgObjs,     \* the ConfigManager objects ever allocated
    cfgRefs,     \* the references ConfigManager() has returned to callers, in order
    cfgShadow,   \* key -> the value of the latest set(key, value), through any reference
    lock,        \* the holder of the lock under test (0: free)
    tpc,         \* per thread: its position in the method it is running
    tcall,       \* per thread: the call it is running and its local variables
    hist,        \* calls in the order in which they took the lock, with their results
    kept         \* the object an earlier get_all returned, still held by the caller

vars == <<heap, storage, clock, observers, sent, delivered, last,
          cfgInstance, cfgObjs, cfgRefs, cfgShadow, lock, tpc, tcall, hist, kept>>

storeVars == <<heap, storage, clock>>
busVars == <<observers, sent, delivered>>
cfgVars == <<cfgInstance, cfgObjs, cfgRefs, cfgShadow>>
threadVars == <<lock, tpc, tcall, hist>>

-----------------------------------------------------------------------------
(* Bounds and input sets *)

MaxObjs == 2            \* entity objects constructed in one run
MaxEntities == 3        \* entity objects handed to a repository used on its own
MaxDelivered == 3       \* update calls recorded on a Subject used on its own
MaxRefs == 3            \* ConfigManager() calls made by one caller
NumThreads == 2         \* threads running at once
MaxCalls == 2           \* repository calls made by the threads of one run
MaxClock == 1           \* datetime.now() ranges over 0..MaxClock
MaxChanges == 1         \* attach/detach calls the callbacks of one notify make

None == 0

Ids == {"", "1"}
Names == {<<>>, <<"A">>}
Emails == {<<>>, <<"b">>, <<"a", "@", "b">>}
Listeners == {"L1", "L2", "L3"}   \* observers attached to a Subject of its own
Events == {"USER_CREATED", "E"}
Payloads == {1}
FacadeListeners == {"log"}        \* the LoggingObserver the facade attaches
PipeListeners == {"log", "L1"}    \* the facade's observer and one attached later
Threads == 1..NumThreads
Keys == {"max_users", "k"}
Vals == {100, 7}
Defaults == {None, 5}

NoCall == [op |-> "init"]

\* the caller holds no list
NoList == [kind |-> "none", items |-> <<>>]

-----------------------------------------------------------------------------
(* Python values, as far as `and`, `not` and `in` need them *)

PyStr(s) == [t |-> "str", s |-> s, b |-> FALSE]
PyBool(b) == [t |-> "bool", s |-> <<>>, b |-> b]

\* bool(v): a string is true iff it is not empty
Truthy(v) == IF v.t = "str" THEN Len(v.s) > 0 ELSE v.b

\* `a and b`: a when a is false, b otherwise
PyAnd(a, b) == IF Truthy(a) THEN b ELSE a

\* `c in s` for a one-character c
Contains(s, c) == \E i \in 1..Len(s) : s[i] = c

-----------------------------------------------------------------------------
(* dict, with Python's insertion order: a sequence of entries, unique keys *)

DictKeys(d) == {d[i].key : i \in 1..Len(d)}

DictHas(d, k) == k \in DictKeys(d)

DictIndex(d, k) == CHOOSE i \in 1..Len(d) : d[i].key = k

\* d.get(k)
DictGet(d, k) == IF DictHas(d, k) THEN d[DictIndex(d, k)].val ELSE None

\* an assignment that adds an entry even when the key is present
DictSetAppend(d, k, v) == Append(d, [key |-> k, val |-> v])

\* d[k] = v: overwrite in place, or append
DictSet(d, k, v) ==
    IF DictHas(d, k)
    THEN [d EXCEPT ![DictIndex(d, k)] = [key |-> k, val |-> v]]
    ELSE Append(d, [key |-> k, val |-> v])

\* del d[k]: the dict without the entry, or KeyError when k is no key
DictDel(d, k) ==
    IF DictHas(d, k)
    THEN LET i == DictIndex(d, k)
         IN  [d |-> SubSeq(d, 1, i - 1) \o SubSeq(d, i + 1, Len(d)), err |-> ""]
    ELSE [d |-> d, err |-> "KeyError"]

\* list(d.values())
DictValues(d) == [i \in 1..Len(d) |-> d[i].val]

-----------------------------------------------------------------------------
(* BaseEntity, User *)

\* User.__init__ with the two datetime.now() readings of BaseEntity.__init__
User(id, name, email, t1, t2) ==
    [id |-> id, name |-> name, email |-> email, status |-> "ACTIVE",
     created_at |-> t1, updated_at |-> t2]

\* update_timestamp writing the other timestamp
update_timestamp_created(entity, t) == [entity EXCEPT !.created_at = t]

\* BaseEntity.update_timestamp
update_timestamp(entity, t) == [entity EXCEPT !.updated_at = t]

-----------------------------------------------------------------------------
(* InMemoryRepository: what each method does while it holds the lock *)

\* get_by_id: self._storage.get(id)
get_by_id(st, id) == DictGet(st, id)

\* save, first statement: entity.update_timestamp()
save_entity(hp, h, t) == [hp EXCEPT ![h] = update_timestamp(@, t)]

\* save that keeps the entry already stored under the id (dict.setdefault)
save_storage_keep_first(st, hp, h) ==
    IF DictHas(st, hp[h].id) THEN st ELSE DictSet(st, hp[h].id, h)

\* save that stores under the identifier of the first entity constructed
save_storage_first_id(st, hp, h) == DictSet(st, hp[1].id, h)

\* save, second statement: self._storage[entity.id] = entity
save_storage(st, hp, h) == DictSet(st, hp[h].id, h)

\* delete without the membership test
delete_unguarded(st, id) == DictDel(st, id)

\* delete: del self._storage[id] if id is a key; the mapping left and the error raised
delete(st, id) == IF DictHas(st, id) THEN DictDel(st, id) ELSE [d |-> st, err |-> ""]

\* get_all: list(self._storage.values())
get_all(st) == DictValues(st)

-----------------------------------------------------------------------------
(* Subject *)

InList(x, l) == \E i \in 1..Len(l) : l[i] = x

\* list.remove(x): drops the first occurrence of x
ListRemove(l, x) ==
    LET i == CHOOSE j \in 1..Len(l) : l[j] = x /\ \A k \in 1..(j - 1) : l[k] # x
    IN  SubSeq(l, 1, i - 1) \o SubSeq(l, i + 1, Len(l))

\* attach without the membership test
attach_always(obs, observer) == Append(obs, observer)

attach(obs, observer) == IF ~InList(observer, obs) THEN Append(obs, observer) ELSE obs

\* detach that drops the last listener of the list (list.pop)
detach_pop(obs, observer) ==
    IF InList(observer, obs) THEN SubSeq(obs, 1, Len(obs) - 1) ELSE obs

detach(obs, observer) == IF InList(observer, obs) THEN ListRemove(obs, observer) ELSE obs

\* notify walking the list from its end
notify_reversed(obs, event, data) ==
    [i \in 1..Len(obs) |->
        [observer |-> obs[Len(obs) + 1 - i], event |-> event, data |-> data]]

\* notify: the update calls it makes, in the order of the for loop
notify(obs, event, data) ==
    [i \in 1..Len(obs) |-> [observer |-> obs[i], event |-> event, data |-> data]]

-----------------------------------------------------------------------------
(* NotificationFactory, EmailNotificationService *)

\* what one send call emits; the facade's service is the "EMAIL" one
send(recipient, message) == [via |-> "EMAIL", recipient |-> recipient, message |-> message]

-----------------------------------------------------------------------------
(* UserService *)

\* validate without the test of the name
validate_no_name(user) ==
    PyAnd(PyStr(user.email), PyBool(Contains(user.email, "@")))

\* UserService.validate: user.name and user.email and "@" in user.email
validate(user) ==
    PyAnd(PyAnd(PyStr(user.name), PyStr(user.email)), PyBool(Contains(user.email, "@")))

CreateCall(id, name, email, ret, err) ==
    [op |-> "create_user", id |-> id, name |-> name, email |-> email,
     ret |-> ret, err |-> err]

\* create_user with repository.save moved above the validation
CreateUserSaveFirst(id, name, email) ==
    /\ Len(heap) < MaxObjs
    /\ \E t1 \in clock..MaxClock : \E t2 \in t1..MaxClock : \E t3 \in t2..MaxClock :
        LET user == User(id, name, email, t1, t2)
            h == Len(heap) + 1
            hp == Append(heap, user)
        IN  /\ heap' = save_entity(hp, h, t3)
            /\ storage' = save_storage(storage, hp, h)
            /\ clock' = t3
            /\ UNCHANGED observers
            /\ IF ~Truthy(validate(user))
               THEN /\ last' = CreateCall(id, name, email, None, "ValueError")
                    /\ UNCHANGED <<sent, delivered>>
               ELSE /\ sent' = Append(sent, send(email, <<"Welcome!">>))
                    /\ delivered' = delivered \o notify(observers, "USER_CREATED", h)
                    /\ last' = CreateCall(id, name, email, h, "")

\* UserService.create_user, reached through SystemFacade.create_user.
\* t1, t2: the clock readings of the constructor; t3: that of save.
CreateUser(id, name, email) ==
    \E t1 \in clock..MaxClock : \E t2 \in t1..MaxClock :
        LET user == User(id, name, email, t1, t2)
        IN  IF ~Truthy(validate(user))
            THEN /\ clock' = t2
                 /\ last' = CreateCall(id, name, email, None, "ValueError")
                 /\ UNCHANGED <<heap, storage, observers, sent, delivered>>
            ELSE /\ Len(heap) < MaxObjs
                 /\ \E t3 \in t2..MaxClock :
                        LET h == Len(heap) + 1
                            hp == Append(heap, user)
                        IN  /\ heap' = save_entity(hp, h, t3)
                            /\ storage' = save_storage(storage, hp, h)
                            /\ sent' = Append(sent, send(email, <<"Welcome!">>))
                            /\ delivered' = delivered \o notify(observers, "USER_CREATED", h)
                            /\ clock' = t3
                            /\ last' = CreateCall(id, name, email, h, "")
                            /\ UNCHANGED observers

\* get_user that takes the entry out of the mapping (dict.pop)
GetUserPop(id) ==
    /\ last' = [op |-> "get_user", id |-> id, ret |-> get_by_id(storage, id), err |-> ""]
    /\ storage' = delete(storage, id).d
    /\ UNCHANGED <<heap, clock, observers, sent, delivered>>

\* UserService.get_user, reached through SystemFacade.get_user
GetUser(id) ==
    /\ last' = [op |-> "get_user", id |-> id, ret |-> get_by_id(storage, id), err |-> ""]
    /\ UNCHANGED <<heap, storage, clock, observers, sent, delivered>>

\* user_service.subject.attach(observer)
Attach(observer) ==
    /\ observers' = attach(observers, observer)
    /\ last' = [op |-> "attach", observer |-> observer]
    /\ UNCHANGED <<heap, storage, clock, sent, delivered>>

\* user_service.subject.detach(observer)
Detach(observer) ==
    /\ observers' = detach(observers, observer)
    /\ last' = [op |-> "detach", observer |-> observer]
    /\ UNCHANGED <<heap, storage, clock, sent, delivered>>

-----------------------------------------------------------------------------
(* ConfigManager: the statements of __new__, __init__, set and get *)

\* object.__new__(cls): an instance without attributes yet
CfgBlank == [has_initialized |-> FALSE, initialized |-> FALSE,
             has_config |-> FALSE, config |-> <<>>]

\* {}: the empty mapping, a function with no key
EmptyDict == [k \in {} |-> None]

\* line 116: cls._instance = super().__new__(cls)
CfgAlloc(objs) == Append(objs, CfgBlank)

\* lines 117 and 124: obj._initialized = b
CfgSetInitialized(objs, self, b) ==
    [objs EXCEPT ![self].has_initialized = TRUE, ![self].initialized = b]

\* line 123: self._config = {}
CfgSetConfig(objs, self) ==
    [objs EXCEPT ![self].has_config = TRUE, ![self].config = EmptyDict]

\* __new__ that allocates on every call
cfg_new_always(inst, objs) ==
    LET objs1 == CfgAlloc(objs)
        h == Len(objs1)
    IN  [inst |-> h, objs |-> CfgSetInitialized(objs1, h, FALSE)]

\* ConfigManager.__new__ run by a single caller: the new value of cls._instance
\* (which is also what it returns) and the objects
cfg_new(inst, objs) ==
    IF inst = None
    THEN LET objs1 == CfgAlloc(objs)
             h == Len(objs1)
         IN  [inst |-> h, objs |-> CfgSetInitialized(objs1, h, FALSE)]
    ELSE [inst |-> inst, objs |-> objs]

\* ConfigManager.__init__ run by a single caller
cfg_init(objs, self) ==
    IF objs[self].initialized
    THEN objs
    ELSE CfgSetInitialized(CfgSetConfig(objs, self), self, TRUE)

\* ConfigManager.set: self._config[key] = value
cfg_set(objs, self, key, value) ==
    [objs EXCEPT ![self].config =
        [k \in DOMAIN @ \cup {key} |-> IF k = key THEN value ELSE @[k]]]

\* ConfigManager.get: self._config.get(key, default)
cfg_get(objs, self, key, default) ==
    IF key \in DOMAIN objs[self].config THEN objs[self].config[key] ELSE default

\* no key has been set yet
NeverSet == [k \in Keys |-> [v |-> None, ref |-> 0]]

-----------------------------------------------------------------------------
(* SystemFacade: one repository, the EMAIL service, one logging observer *)

InitUnusedCfg ==
    /\ cfgInstance = None
    /\ cfgObjs = <<>>
    /\ cfgRefs = <<>>
    /\ cfgShadow = <<>>

InitUnusedBus ==
    /\ observers = <<>>
    /\ sent = <<>>
    /\ delivered = <<>>

InitUnusedStore ==
    /\ heap = <<>>
    /\ storage = <<>>
    /\ clock = 0

InitUnusedThreads ==
    /\ lock = 0
    /\ tpc = <<>>
    /\ tcall = <<>>
    /\ hist = <<>>

\* ConfigManager() as SystemFacade.__init__ and BaseService.__init__ call it
FacadeConfig ==
    LET first == cfg_new(None, <<>>)
        objs1 == cfg_init(first.objs, first.inst)
        second == cfg_new(first.inst, objs1)
    IN  [inst |-> second.inst, objs |-> cfg_init(second.objs, second.inst),
         refs |-> <<first.inst, second.inst>>]

Init ==
    /\ heap = <<>>
    /\ storage = <<>>
    /\ clock = 0
    /\ observers = attach(<<>>, "log")
    /\ sent = <<>>
    /\ delivered = <<>>
    /\ last = NoCall
    /\ kept = NoList
    /\ cfgInstance = FacadeConfig.inst
    /\ cfgObjs = FacadeConfig.objs
    /\ cfgRefs = FacadeConfig.refs
    /\ cfgShadow = NeverSet
    /\ InitUnusedThreads

Next ==
    \/ \E id \in Ids, name \in Names, email \in Emails :
           CreateUser(id, name, email) /\ UNCHANGED <<cfgVars, threadVars, kept>>
    \/ \E id \in Ids : GetUser(id) /\ UNCHANGED <<cfgVars, threadVars, kept>>
    \/ \E o \in FacadeListeners : Attach(o) /\ UNCHANGED <<cfgVars, threadVars, kept>>
    \/ \E o \in FacadeListeners : Detach(o) /\ UNCHANGED <<cfgVars, threadVars, kept>>

Spec == Init /\ [][Next]_vars

-----------------------------------------------------------------------------
(* Claims about the facade and the service, checked under Spec *)

\* the inputs the validation is documented to reject
FailsValidation(name, email) == name = <<>> \/ email = <<>> \/ ~Contains(email, "@")

\* the entity the latest successful create_user(id, ...) returned, None if there is none
\* (under Spec the heap holds exactly the created entities, in creation order)
LatestCreated(id) ==
    LET hs == {h \in 1..Len(heap) : heap[h].id = id}
    IN  IF hs = {} THEN None ELSE CHOOSE h \in hs : \A g \in hs : g <= h

\* C1: a create_user call whose input fails validation raises and leaves the
\* repository (mapping and entities), the notifications sent and the events
\* delivered to observers exactly as they were before the call.
C1_AtomicRejection ==
    [][(last'.op = "create_user" /\ FailsValidation(last'.name, last'.email))
         => /\ last'.err = "ValueError"
            /\ storage' = storage
            /\ heap' = heap
            /\ sent' = sent
            /\ delivered' = delivered
            /\ observers' = observers]_vars

\* a rejected call made when the store, the notifications and the events are not empty
C1_Witness ==
    /\ last.op = "create_user"
    /\ last.err = "ValueError"
    /\ Len(storage) > 0 /\ Len(sent) > 0 /\ Len(delivered) > 0

\* C9: a successful create_user(id, ...) returns a new ACTIVE entity whose id is
\* id; get_user(id) returns the entity the latest successful create_user(id, ...)
\* returned, and the absent marker when no create_user(id, ...) has succeeded
\* (in particular after one that failed validation).
C9_CreateGetRoundTrip ==
    [][/\ (last'.op = "create_user" /\ last'.err = "")
            => /\ last'.ret \in (1..Len(heap')) \ (1..Len(heap))
               /\ heap'[last'.ret].id = last'.id
               /\ heap'[last'.ret].status = "ACTIVE"
               /\ get_by_id(storage', last'.id) = last'.ret
       /\ last'.op = "get_user"
            => /\ last'.err = ""
               /\ last'.ret = LatestCreated(last'.id)]_vars

\* get_user returns the second of two entities created under one id
C9_Witness ==
    /\ last.op = "get_user"
    /\ Len(heap) = 2
    /\ heap[1].id = heap[2].id
    /\ last.id = heap[2].id
    /\ last.ret = 2

\* C10: create_user is rejected with a validation error exactly when name is
\* empty, email is empty or email has no "@"; every other call succeeds and
\* returns the entity, whatever the store holds.
C10_ValidationPredicate ==
    [][last'.op = "create_user"
         => /\ (last'.err = "ValueError") <=> FailsValidation(last'.name, last'.email)
            /\ (last'.err = "") <=> ~FailsValidation(last'.name, last'.email)
            /\ (last'.err = "") => last'.ret # None]_vars

\* a call accepted while the store already holds an entry under the same id
C10_Witness ==
    /\ last.op = "create_user"
    /\ last.err = ""
    /\ Len(heap) = 2
    /\ heap[1].id = last.id

-----------------------------------------------------------------------------
(* An InMemoryRepository used on its own by one caller *)

\* User(id, ...): an entity is constructed and kept by the caller
StoreNewUser(id) ==
    /\ Len(heap) < MaxEntities
    /\ \E t1 \in clock..MaxClock : \E t2 \in t1..MaxClock :
           /\ heap' = Append(heap, User(id, <<"A">>, <<"a", "@", "b">>, t1, t2))
           /\ clock' = t2
    /\ last' = [op |-> "new", ret |-> Len(heap) + 1]
    /\ UNCHANGED storage

\* repository.save(entity), for the entity with handle h
StoreSave(h) ==
    /\ \E t \in clock..MaxClock :
           /\ heap' = save_entity(heap, h, t)
           /\ clock' = t
    /\ storage' = save_storage(storage, heap, h)
    /\ last' = [op |-> "save", h |-> h, id |-> heap[h].id, err |-> ""]

\* repository.delete(id)
StoreDelete(id) ==
    /\ storage' = delete(storage, id).d
    /\ last' = [op |-> "delete", id |-> id, err |-> delete(storage, id).err]
    /\ UNCHANGED <<heap, clock>>

\* repository.get_by_id(id)
StoreGetById(id) ==
    /\ last' = [op |-> "get_by_id", id |-> id, ret |-> get_by_id(storage, id), err |-> ""]
    /\ UNCHANGED <<heap, storage, clock>>

\* repository.get_all()
StoreGetAll ==
    /\ last' = [op |-> "get_all", ret |-> get_all(storage), err |-> ""]
    /\ UNCHANGED <<heap, storage, clock>>

InitStore ==
    /\ heap = <<>>
    /\ storage = <<>>
    /\ clock = 0
    /\ last = NoCall
    /\ kept = NoList
    /\ InitUnusedBus
    /\ InitUnusedCfg
    /\ InitUnusedThreads

NextStore ==
    \/ \E id \in Ids : StoreNewUser(id) /\ UNCHANGED <<busVars, cfgVars, threadVars, kept>>
    \/ \E h \in 1..Len(heap) : StoreSave(h) /\ UNCHANGED <<busVars, cfgVars, threadVars, kept>>
    \/ \E id \in Ids : StoreDelete(id) /\ UNCHANGED <<busVars, cfgVars, threadVars, kept>>
    \/ \E id \in Ids : StoreGetById(id) /\ UNCHANGED <<busVars, cfgVars, threadVars, kept>>
    \/ StoreGetAll /\ UNCHANGED <<busVars, cfgVars, threadVars, kept>>

SpecStore == InitStore /\ [][NextStore]_vars

-----------------------------------------------------------------------------
(* Claims about the repository used on its own, checked under SpecStore *)

\* the number of entries of dict d under key k
EntryCount(d, k) == Cardinality({i \in 1..Len(d) : d[i].key = k})

\* C7: after save(e2) the mapping has exactly one entry under e2's identifier,
\* get_by_id returns e2, get_all contains e2 and no other entity with that
\* identifier (so not an e1 saved before), and the entries under the other
\* identifiers are the ones that were there before.
C7_UniquenessUnderOverwrite ==
    [][last'.op = "save"
         => LET e2 == last'.h
                id == heap[e2].id
            IN  /\ EntryCount(storage', id) = 1
                /\ get_by_id(storage', id) = e2
                /\ InList(e2, get_all(storage'))
                /\ \A e1 \in 1..Len(heap) :
                       (e1 # e2 /\ heap[e1].id = id) => ~InList(e1, get_all(storage'))
                /\ \A k \in Ids \ {id} :
                       /\ get_by_id(storage', k) = get_by_id(storage, k)
                       /\ EntryCount(storage', k) = EntryCount(storage, k)
                /\ heap'[e2].id = id]_vars

\* save(e2) has run while another entity e1 has the same identifier, a third
\* entity being stored under another identifier
C7_Witness ==
    /\ last.op = "save"
    /\ Len(storage) = 2
    /\ \E e1 \in 1..Len(heap) :
           /\ e1 # last.h
           /\ heap[e1].id = last.id
           /\ heap[e1].updated_at < heap[last.h].updated_at

\* C8: delete(id) raises no error; for an absent id it leaves the mapping
\* unchanged, for a present id it removes exactly that entry, and deleting the
\* same id again leaves the repository as the first delete left it.
C8_IdempotentDelete ==
    [][last'.op = "delete"
         => LET id == last'.id
            IN  /\ last'.err = ""
                /\ ~DictHas(storage, id) => storage' = storage
                /\ DictHas(storage, id) =>
                       /\ ~DictHas(storage', id)
                       /\ Len(storage') = Len(storage) - 1
                       /\ \A k \in Ids \ {id} :
                              get_by_id(storage', k) = get_by_id(storage, k)
                /\ delete(storage', id) = [d |-> storage', err |-> ""]
                /\ heap' = heap]_vars

\* a delete has run for an identifier that some entity has; the entry is not
\* there and the entry of the other identifier is
C8_Witness ==
    /\ last.op = "delete"
    /\ ~DictHas(storage, last.id)
    /\ Len(storage) > 0
    /\ \E h \in 1..Len(heap) : heap[h].id = last.id

-----------------------------------------------------------------------------
(* A Subject used on its own by one caller *)

BusAttach(observer) ==
    /\ observers' = attach(observers, observer)
    /\ last' = [op |-> "attach", observer |-> observer]
    /\ UNCHANGED <<sent, delivered>>

BusDetach(observer) ==
    /\ observers' = detach(observers, observer)
    /\ last' = [op |-> "detach", observer |-> observer]
    /\ UNCHANGED <<sent, delivered>>

BusNotify(event, data) ==
    /\ Len(delivered) + Len(observers) <= MaxDelivered
    /\ delivered' = delivered \o notify(observers, event, data)
    /\ last' = [op |-> "notify", event |-> event, data |-> data]
    /\ UNCHANGED <<sent, observers>>

InitBus ==
    /\ observers = <<>>
    /\ sent = <<>>
    /\ delivered = <<>>
    /\ last = NoCall
    /\ kept = NoList
    /\ InitUnusedStore
    /\ InitUnusedCfg
    /\ InitUnusedThreads

NextBus ==
    \/ \E o \in Listeners : BusAttach(o) /\ UNCHANGED <<storeVars, cfgVars, threadVars, kept>>
    \/ \E o \in Listeners : BusDetach(o) /\ UNCHANGED <<storeVars, cfgVars, threadVars, kept>>
    \/ \E e \in Events, d \in Payloads :
           BusNotify(e, d) /\ UNCHANGED <<storeVars, cfgVars, threadVars, kept>>

SpecBus == InitBus /\ [][NextBus]_vars

-----------------------------------------------------------------------------
(* Claims about the Subject, checked under SpecBus *)

\* the update calls a step has added
NewDeliveries == SubSeq(delivered', Len(delivered) + 1, Len(delivered'))

\* how many of the update calls in ds went to listener o
DeliveryCount(ds, o) == Cardinality({i \in 1..Len(ds) : ds[i].observer = o})

\* the position of an attached listener in the list
Position(obs, o) == CHOOSE i \in 1..Len(obs) : obs[i] = o

\* C5: notify(event, data) calls update(event, data) exactly once on every
\* listener attached at that point and on no other, in the order in which the
\* listeners were attached: an attach puts a new listener after all attached
\* ones and keeps their order, and notify calls them in list order.
C5_FanOutOrdering ==
    [][/\ last'.op = "notify"
            => /\ Len(delivered') >= Len(delivered)
               /\ SubSeq(delivered', 1, Len(delivered)) = delivered
               /\ \A o \in Listeners :
                      DeliveryCount(NewDeliveries, o) = IF InList(o, observers) THEN 1 ELSE 0
               /\ \A i \in 1..Len(NewDeliveries) :
                      /\ NewDeliveries[i].event = last'.event
                      /\ NewDeliveries[i].data = last'.data
               /\ \A i, j \in 1..Len(NewDeliveries) :
                      i < j => Position(observers, NewDeliveries[i].observer)
                                 < Position(observers, NewDeliveries[j].observer)
       /\ (last'.op = "attach" /\ ~InList(last'.observer, observers))
            => /\ Len(observers') = Len(observers) + 1
               /\ SubSeq(observers', 1, Len(observers)) = observers
               /\ observers'[Len(observers')] = last'.observer]_vars

\* a notify has reached three listeners attached in an order that is not their name order
C5_Witness ==
    /\ last.op = "notify"
    /\ observers = <<"L2", "L3", "L1">>
    /\ Len(delivered) = 3
    /\ delivered[1].observer = "L2" /\ delivered[3].observer = "L1"

\* C6: attaching a listener that is already attached leaves the listener list
\* as it was, so no listener is ever in the list twice and every notify calls
\* an attached listener exactly once.
C6_AttachIdempotence ==
    [][/\ (last'.op = "attach" /\ InList(last'.observer, observers))
            => observers' = observers
       /\ last'.op = "attach"
            => Cardinality({i \in 1..Len(observers') : observers'[i] = last'.observer}) = 1
       /\ last'.op = "notify"
            => \A o \in Listeners :
                   InList(o, observers) => DeliveryCount(NewDeliveries, o) = 1]_vars

\* a listener attached again while attached, with another listener behind it
C6_Witness ==
    /\ last.op = "attach"
    /\ Len(observers) >= 2
    /\ observers[1] = last.observer

-----------------------------------------------------------------------------
(* ConfigManager used by one caller *)

\* ConfigManager(): __new__, then __init__ on what it returned
CfgConstruct ==
    /\ Len(cfgRefs) < MaxRefs
    /\ LET new == cfg_new(cfgInstance, cfgObjs)
       IN  /\ cfgInstance' = new.inst
           /\ cfgObjs' = cfg_init(new.objs, new.inst)
           /\ cfgRefs' = Append(cfgRefs, new.inst)
           /\ last' = [op |-> "construct", ret |-> new.inst]
    /\ UNCHANGED cfgShadow

\* set(key, value) through the r-th reference obtained
CfgSet(r, key, value) ==
    /\ cfgObjs' = cfg_set(cfgObjs, cfgRefs[r], key, value)
    /\ cfgShadow' = [cfgShadow EXCEPT ![key] = [v |-> value, ref |-> r]]
    /\ last' = [op |-> "set", ref |-> r, key |-> key, value |-> value]
    /\ UNCHANGED <<cfgInstance, cfgRefs>>

\* get(key, default) through the r-th reference obtained
CfgGet(r, key, default) ==
    /\ last' = [op |-> "get", ref |-> r, key |-> key, default |-> default,
                ret |-> cfg_get(cfgObjs, cfgRefs[r], key, default)]
    /\ UNCHANGED cfgVars

InitConfig ==
    /\ cfgInstance = None
    /\ cfgObjs = <<>>
    /\ cfgRefs = <<>>
    /\ cfgShadow = NeverSet
    /\ last = NoCall
    /\ kept = NoList
    /\ InitUnusedStore
    /\ InitUnusedBus
    /\ InitUnusedThreads

NextConfig ==
    \/ CfgConstruct /\ UNCHANGED <<storeVars, busVars, threadVars, kept>>
    \/ \E r \in 1..Len(cfgRefs), k \in Keys, v \in Vals :
           CfgSet(r, k, v) /\ UNCHANGED <<storeVars, busVars, threadVars, kept>>
    \/ \E r \in 1..Len(cfgRefs), k \in Keys, d \in Defaults :
           CfgGet(r, k, d) /\ UNCHANGED <<storeVars, busVars, threadVars, kept>>

SpecConfig == InitConfig /\ [][NextConfig]_vars

\* C4: called one after the other, every ConfigManager() returns the same
\* instance; get(k, default) through any reference returns the value of the
\* latest set(k, v) made through any reference, and the default for a key that
\* was never set.
C4_SingletonIdentity ==
    [][/\ \A i, j \in 1..Len(cfgRefs') : cfgRefs'[i] = cfgRefs'[j]
       /\ last'.op = "construct" => last'.ret = cfgInstance' /\ last'.ret # None
       /\ last'.op = "get"
            => last'.ret = IF cfgShadow[last'.key].ref # 0
                           THEN cfgShadow[last'.key].v
                           ELSE last'.default]_vars

\* get through the reference constructed last returns what was set through the first
C4_Witness ==
    /\ last.op = "get"
    /\ last.ref = Len(cfgRefs)
    /\ cfgShadow[last.key].ref = 1
    /\ last.ref > 1
    /\ last.ret = cfgShadow[last.key].v
    /\ last.ret # last.default

-----------------------------------------------------------------------------
(* ConfigManager() called by several threads: one action per statement.      *)
(* tcall[t].self is the thread's local reference to the instance.            *)

SgGoto(t, pc) == tpc' = [tpc EXCEPT ![t] = pc]

\* a thread calls ConfigManager()
SgCall(t) ==
    /\ tpc[t] \in {"idle", "done"}
    /\ SgGoto(t, "new_check1")
    /\ tcall' = [tcall EXCEPT ![t] = [self |-> None]]
    /\ UNCHANGED <<cfgVars, lock>>

\* line 113: if cls._instance is None
SgCheck1(t) ==
    /\ tpc[t] = "new_check1"
    /\ SgGoto(t, IF cfgInstance = None THEN "new_lock" ELSE "new_return")
    /\ UNCHANGED <<cfgVars, lock, tcall>>

\* line 114: with cls._lock
SgLock(t) ==
    /\ tpc[t] = "new_lock"
    /\ lock = 0
    /\ lock' = t
    /\ SgGoto(t, "new_check2")
    /\ UNCHANGED <<cfgVars, tcall>>

\* line 115: if cls._instance is None
SgCheck2(t) ==
    /\ tpc[t] = "new_check2"
    /\ SgGoto(t, IF cfgInstance = None THEN "new_alloc" ELSE "new_unlock")
    /\ UNCHANGED <<cfgVars, lock, tcall>>

\* line 116: cls._instance = super().__new__(cls)
SgAlloc(t) ==
    /\ tpc[t] = "new_alloc"
    /\ cfgObjs' = CfgAlloc(cfgObjs)
    /\ cfgInstance' = Len(cfgObjs')
    /\ SgGoto(t, "new_setflag")
    /\ UNCHANGED <<cfgRefs, cfgShadow, lock, tcall>>

\* line 117: cls._instance._initialized = False
SgSetFlag(t) ==
    /\ tpc[t] = "new_setflag"
    /\ cfgObjs' = CfgSetInitialized(cfgObjs, cfgInstance, FALSE)
    /\ SgGoto(t, "new_unlock")
    /\ UNCHANGED <<cfgInstance, cfgRefs, cfgShadow, lock, tcall>>

\* the end of the with block: the lock is released
SgUnlock(t) ==
    /\ tpc[t] = "new_unlock"
    /\ lock' = 0
    /\ SgGoto(t, "new_return")
    /\ UNCHANGED <<cfgVars, tcall>>

\* line 118: return cls._instance; __init__ is then called on it
SgReturn(t) ==
    /\ tpc[t] = "new_return"
    /\ tcall' = [tcall EXCEPT ![t].self = cfgInstance]
    /\ SgGoto(t, "init_check")
    /\ UNCHANGED <<cfgVars, lock>>

\* line 121: if self._initialized: return (AttributeError without the attribute)
SgInitCheck(t) ==
    /\ tpc[t] = "init_check"
    /\ LET obj == cfgObjs[tcall[t].self]
       IN  SgGoto(t, IF ~obj.has_initialized THEN "raised"
                     ELSE IF obj.initialized THEN "done"
                     ELSE "init_config")
    /\ UNCHANGED <<cfgVars, lock, tcall>>

\* line 123: self._config = {}
SgInitConfig(t) ==
    /\ tpc[t] = "init_config"
    /\ cfgObjs' = CfgSetConfig(cfgObjs, tcall[t].self)
    /\ SgGoto(t, "init_flag")
    /\ UNCHANGED <<cfgInstance, cfgRefs, cfgShadow, lock, tcall>>

\* line 124: self._initialized = True
SgInitFlag(t) ==
    /\ tpc[t] = "init_flag"
    /\ cfgObjs' = CfgSetInitialized(cfgObjs, tcall[t].self, TRUE)
    /\ SgGoto(t, "done")
    /\ UNCHANGED <<cfgInstance, cfgRefs, cfgShadow, lock, tcall>>

\* a thread whose ConfigManager() has returned calls set(key, value) on it
SgSet(t, key, value) ==
    /\ tpc[t] = "done"
    /\ IF cfgObjs[tcall[t].self].has_config
       THEN /\ cfgObjs' = cfg_set(cfgObjs, tcall[t].self, key, value)
            /\ cfgShadow' = [cfgShadow EXCEPT ![key] = [v |-> value, ref |-> t]]
            /\ UNCHANGED tpc
       ELSE /\ SgGoto(t, "raised")
            /\ UNCHANGED <<cfgObjs, cfgShadow>>
    /\ UNCHANGED <<cfgInstance, cfgRefs, lock, tcall>>

InitSingleton ==
    /\ cfgInstance = None
    /\ cfgObjs = <<>>
    /\ cfgRefs = <<>>
    /\ cfgShadow = NeverSet
    /\ lock = 0
    /\ tpc = [t \in Threads |-> "idle"]
    /\ tcall = [t \in Threads |-> [self |-> None]]
    /\ hist = <<>>
    /\ last = NoCall
    /\ kept = NoList
    /\ InitUnusedStore
    /\ InitUnusedBus

NextSingleton ==
    \/ \E t \in Threads : SgCall(t) /\ UNCHANGED <<storeVars, busVars, last, hist, kept>>
    \/ \E t \in Threads : SgCheck1(t) /\ UNCHANGED <<storeVars, busVars, last, hist, kept>>
    \/ \E t \in Threads : SgLock(t) /\ UNCHANGED <<storeVars, busVars, last, hist, kept>>
    \/ \E t \in Threads : SgCheck2(t) /\ UNCHANGED <<storeVars, busVars, last, hist, kept>>
    \/ \E t \in Threads : SgAlloc(t) /\ UNCHANGED <<storeVars, busVars, last, hist, kept>>
    \/ \E t \in Threads : SgSetFlag(t) /\ UNCHANGED <<storeVars, busVars, last, hist, kept>>
    \/ \E t \in Threads : SgUnlock(t) /\ UNCHANGED <<storeVars, busVars, last, hist, kept>>
    \/ \E t \in Threads : SgReturn(t) /\ UNCHANGED <<storeVars, busVars, last, hist, kept>>
    \/ \E t \in Threads : SgInitCheck(t) /\ UNCHANGED <<storeVars, busVars, last, hist, kept>>
    \/ \E t \in Threads : SgInitConfig(t) /\ UNCHANGED <<storeVars, busVars, last, hist, kept>>
    \/ \E t \in Threads : SgInitFlag(t) /\ UNCHANGED <<storeVars, busVars, last, hist, kept>>
    \/ \E t \in Threads, k \in Keys, v \in Vals :
           SgSet(t, k, v) /\ UNCHANGED <<storeVars, busVars, last, hist, kept>>

SpecSingleton == InitSingleton /\ [][NextSingleton]_vars

\* C3: however threads that construct ConfigManager() interleave, one instance
\* is created, the empty config mapping is created at most once (never on an
\* instance that already has one), and no key stored with set is ever erased.
C3_InitializedOnce ==
    [][/\ Len(cfgObjs') <= 1
       /\ \A t \in Threads :
              (tpc[t] = "init_config" /\ tpc'[t] = "init_flag")
                  => ~cfgObjs[tcall[t].self].has_config
       /\ \A h \in 1..Len(cfgObjs) :
              DOMAIN cfgObjs[h].config \subseteq DOMAIN cfgObjs'[h].config]_vars

-----------------------------------------------------------------------------
(* One InMemoryRepository called by several threads: one action per          *)
(* statement.  tcall[t] is the call thread t is in; hist lists the calls in  *)
(* the order in which they entered `with self._lock`, each with its result.  *)

\* the entities the threads hold: two with the same identifier, one with another
ThreadEntities ==
    <<User("1", <<"A">>, <<"a", "@", "b">>, 0, 0),
      User("1", <<"A">>, <<"a", "@", "b">>, 0, 0),
      User("", <<"A">>, <<"a", "@", "b">>, 0, 0)>>

RepoCalls ==
    {[op |-> o, id |-> id, h |-> None] : o \in {"get_by_id", "delete"}, id \in Ids}
        \cup {[op |-> "save", id |-> heap[h].id, h |-> h] : h \in 1..Len(heap)}
        \cup {[op |-> "get_all", id |-> "", h |-> None]}

\* the first statement of each method inside the with block
FirstStatement(op) ==
    CASE op = "get_by_id" -> "get"
      [] op = "save" -> "save_timestamp"
      [] op = "delete" -> "delete_test"
      [] op = "get_all" -> "values"

RtGoto(t, pc) == tpc' = [tpc EXCEPT ![t] = pc]

\* the entry of tcall[t] in hist
RtEntry(t) == tcall[t].idx

\* a thread calls a method of the repository
RtCall(t, call) ==
    /\ tpc[t] = "idle"
    /\ Len(hist) + Cardinality({u \in Threads : tpc[u] = "lock"}) < MaxCalls
    /\ tcall' = [tcall EXCEPT ![t] = [op |-> call.op, id |-> call.id, h |-> call.h, idx |-> 0]]
    /\ RtGoto(t, "lock")
    /\ UNCHANGED <<storeVars, lock, hist>>

\* with self._lock entered without waiting for the lock to be free
RtLockNoWait(t) ==
    /\ tpc[t] = "lock"
    /\ lock' = t
    /\ hist' = Append(hist, [op |-> tcall[t].op, id |-> tcall[t].id, h |-> tcall[t].h,
                             ret |-> None, all |-> <<>>, err |-> "", done |-> FALSE])
    /\ tcall' = [tcall EXCEPT ![t].idx = Len(hist) + 1]
    /\ RtGoto(t, FirstStatement(tcall[t].op))
    /\ UNCHANGED storeVars

\* with self._lock: the thread waits until the lock is free and takes it
RtLock(t) ==
    /\ tpc[t] = "lock"
    /\ lock = 0
    /\ lock' = t
    /\ hist' = Append(hist, [op |-> tcall[t].op, id |-> tcall[t].id, h |-> tcall[t].h,
                             ret |-> None, all |-> <<>>, err |-> "", done |-> FALSE])
    /\ tcall' = [tcall EXCEPT ![t].idx = Len(hist) + 1]
    /\ RtGoto(t, FirstStatement(tcall[t].op))
    /\ UNCHANGED storeVars

\* get_by_id, line 86: return self._storage.get(id)
RtGet(t) ==
    /\ tpc[t] = "get"
    /\ hist' = [hist EXCEPT ![RtEntry(t)].ret = get_by_id(storage, tcall[t].id)]
    /\ RtGoto(t, "unlock")
    /\ UNCHANGED <<storeVars, lock, tcall>>

\* save, line 90: entity.update_timestamp()
RtSaveTimestamp(t) ==
    /\ tpc[t] = "save_timestamp"
    /\ \E now \in clock..MaxClock :
           /\ heap' = save_entity(heap, tcall[t].h, now)
           /\ clock' = now
    /\ RtGoto(t, "save_store")
    /\ UNCHANGED <<storage, lock, tcall, hist>>

\* save, line 91: self._storage[entity.id] = entity
RtSaveStore(t) ==
    /\ tpc[t] = "save_store"
    /\ storage' = save_storage(storage, heap, tcall[t].h)
    /\ RtGoto(t, "unlock")
    /\ UNCHANGED <<heap, clock, lock, tcall, hist>>

\* delete, line 95: if id in self._storage
RtDeleteTest(t) ==
    /\ tpc[t] = "delete_test"
    /\ RtGoto(t, IF DictHas(storage, tcall[t].id) THEN "delete_del" ELSE "unlock")
    /\ UNCHANGED <<storeVars, lock, tcall, hist>>

\* delete, line 96: del self._storage[id]
RtDeleteDel(t) ==
    /\ tpc[t] = "delete_del"
    /\ storage' = DictDel(storage, tcall[t].id).d
    /\ hist' = [hist EXCEPT ![RtEntry(t)].err = DictDel(storage, tcall[t].id).err]
    /\ RtGoto(t, "unlock")
    /\ UNCHANGED <<heap, clock, lock, tcall>>

\* get_all, line 100: return list(self._storage.values())
RtValues(t) ==
    /\ tpc[t] = "values"
    /\ hist' = [hist EXCEPT ![RtEntry(t)].all = get_all(storage)]
    /\ RtGoto(t, "unlock")
    /\ UNCHANGED <<storeVars, lock, tcall>>

\* the with block is left (by return or by an exception): the lock is released
RtUnlock(t) ==
    /\ tpc[t] = "unlock"
    /\ lock' = 0
    /\ hist' = [hist EXCEPT ![RtEntry(t)].done = TRUE]
    /\ RtGoto(t, "idle")
    /\ UNCHANGED <<storeVars, tcall>>

InitRepoThreads ==
    /\ heap = ThreadEntities
    /\ storage = <<>>
    /\ clock = 0
    /\ lock = 0
    /\ tpc = [t \in Threads |-> "idle"]
    /\ tcall = [t \in Threads |-> [op |-> "", id |-> "", h |-> None, idx |-> 0]]
    /\ hist = <<>>
    /\ last = NoCall
    /\ kept = NoList
    /\ InitUnusedBus
    /\ InitUnusedCfg

NextRepoThreads ==
    \/ \E t \in Threads : \E call \in RepoCalls :
           RtCall(t, call) /\ UNCHANGED <<busVars, cfgVars, last, kept>>
    \/ \E t \in Threads : RtLock(t) /\ UNCHANGED <<busVars, cfgVars, last, kept>>
    \/ \E t \in Threads : RtGet(t) /\ UNCHANGED <<busVars, cfgVars, last, kept>>
    \/ \E t \in Threads : RtSaveTimestamp(t) /\ UNCHANGED <<busVars, cfgVars, last, kept>>
    \/ \E t \in Threads : RtSaveStore(t) /\ UNCHANGED <<busVars, cfgVars, last, kept>>
    \/ \E t \in Threads : RtDeleteTest(t) /\ UNCHANGED <<busVars, cfgVars, last, kept>>
    \/ \E t \in Threads : RtDeleteDel(t) /\ UNCHANGED <<busVars, cfgVars, last, kept>>
    \/ \E t \in Threads : RtValues(t) /\ UNCHANGED <<busVars, cfgVars, last, kept>>
    \/ \E t \in Threads : RtUnlock(t) /\ UNCHANGED <<busVars, cfgVars, last, kept>>

SpecRepoThreads == InitRepoThreads /\ [][NextRepoThreads]_vars

-----------------------------------------------------------------------------
(* Claim about the repository under threads, checked under SpecRepoThreads *)

\* the mapping after one call made on its own
SeqApply(st, call) ==
    CASE call.op = "save" -> save_storage(st, heap, call.h)
      [] call.op = "delete" -> delete(st, call.id).d
      [] OTHER -> st

\* the mapping after the first n calls of hist made one after the other
RECURSIVE SeqStorage(_)
SeqStorage(n) == IF n = 0 THEN <<>> ELSE SeqApply(SeqStorage(n - 1), hist[n])

\* C2: the calls behave as if made one after the other in the order in which
\* they took the lock: every finished call has the result that sequential
\* run gives it (no error, the entry or None, the list of values), whenever
\* the lock is free the mapping is the one the sequential run ends with, and
\* then every saved identifier that no later delete names is stored.
C2_Serialized ==
    /\ \A i \in 1..Len(hist) :
           hist[i].done =>
               /\ hist[i].err = ""
               /\ hist[i].op = "get_by_id"
                      => hist[i].ret = get_by_id(SeqStorage(i - 1), hist[i].id)
               /\ hist[i].op = "get_all"
                      => hist[i].all = get_all(SeqStorage(i - 1))
               /\ hist[i].op = "delete"
                      => hist[i].err = delete(SeqStorage(i - 1), hist[i].id).err
    /\ lock = 0 =>
           /\ storage = SeqStorage(Len(hist))
           /\ \A i \in 1..Len(hist) :
                  (/\ hist[i].op = "save"
                   /\ \A j \in (i + 1)..Len(hist) :
                          ~(hist[j].op = "delete" /\ hist[j].id = hist[i].id))
                      => DictHas(storage, hist[i].id)

\* a save has run to its end; the delete of the same identifier that took the
\* lock next has found the entry and is about to remove it
C2_Witness ==
    /\ Len(hist) = 2
    /\ hist[1].op = "save" /\ hist[1].done
    /\ hist[2].op = "delete" /\ hist[2].id = hist[1].id /\ ~hist[2].done
    /\ \E t \in Threads : tpc[t] = "delete_del" /\ lock = t
    /\ DictHas(storage, hist[1].id)

-----------------------------------------------------------------------------
(* UserService.create_user statement by statement, with a notification       *)
(* service and observers that may raise.  `last` is the frame of the call:   *)
(* its arguments, the entity it constructed, the statement it is at (stage), *)
(* the position of the notify loop (i), what a collaborator raised (raised)  *)
(* and what the caller gets (ret, err).                                      *)

\* the statement that follows each statement of create_user, with publishing
\* the event moved to the front
NextStageNotifyFirst(stage) ==
    CASE stage = "validate" -> "notify"
      [] stage = "notify" -> "save"
      [] stage = "save" -> "send"
      [] stage = "send" -> "done"

\* the statement that follows each statement of create_user (lines 239-245)
NextStage(stage) ==
    CASE stage = "validate" -> "save"
      [] stage = "save" -> "send"
      [] stage = "send" -> "notify"
      [] stage = "notify" -> "done"

PipeRunning == last.op = "create_user" /\ last.stage # "done"

PipeAt(stage) == last.op = "create_user" /\ last.stage = stage

\* the frame moved to a statement; reaching the end returns the entity
PipeEnter(frame, stage) ==
    [frame EXCEPT !.stage = stage,
                  !.ret = IF stage = "done" THEN frame.user ELSE None]

\* the frame of a call that an exception leaves
PipeRaise(frame, err) == [frame EXCEPT !.stage = "done", !.raised = err, !.err = err]

\* line 238: user = User(id, name, email)
PipeCall(id, name, email) ==
    /\ ~PipeRunning
    /\ Len(heap) < MaxObjs
    /\ \E t1 \in clock..MaxClock : \E t2 \in t1..MaxClock :
           /\ heap' = Append(heap, User(id, name, email, t1, t2))
           /\ clock' = t2
    /\ last' = [op |-> "create_user", id |-> id, name |-> name, email |-> email,
                user |-> Len(heap) + 1, stage |-> "validate", i |-> 1,
                sent0 |-> Len(sent), delivered0 |-> Len(delivered),
                raised |-> "", ret |-> None, err |-> ""]
    /\ UNCHANGED <<storage, observers, sent, delivered>>

\* lines 239-240: if not self.validate(user): raise ValueError
PipeValidate ==
    /\ PipeAt("validate")
    /\ last' = IF ~Truthy(validate(heap[last.user]))
               THEN [last EXCEPT !.stage = "done", !.err = "ValueError"]
               ELSE PipeEnter(last, NextStage("validate"))
    /\ UNCHANGED <<heap, storage, clock, observers, sent, delivered>>

\* line 242: self.repository.save(user)
PipeSave ==
    /\ PipeAt("save")
    /\ \E t3 \in clock..MaxClock :
           /\ heap' = save_entity(heap, last.user, t3)
           /\ clock' = t3
    /\ storage' = save_storage(storage, heap, last.user)
    /\ last' = PipeEnter(last, NextStage("save"))
    /\ UNCHANGED <<observers, sent, delivered>>

\* line 243 with the exception of send caught and dropped
PipeSendSwallow(raises) ==
    /\ PipeAt("send")
    /\ sent' = Append(sent, send(last.email, <<"Welcome!">>))
    /\ last' = IF raises
               THEN [PipeEnter(last, NextStage("send")) EXCEPT !.raised = "SendError"]
               ELSE PipeEnter(last, NextStage("send"))
    /\ UNCHANGED <<heap, storage, clock, observers, delivered>>

\* line 243: self.notification_service.send(email, "Welcome!"), which may raise
PipeSend(raises) ==
    /\ PipeAt("send")
    /\ sent' = Append(sent, send(last.email, <<"Welcome!">>))
    /\ last' = IF raises
               THEN PipeRaise(last, "SendError")
               ELSE PipeEnter(last, NextStage("send"))
    /\ UNCHANGED <<heap, storage, clock, observers, delivered>>

\* lines 203-204, one turn of the loop: observer.update(event, data), which may raise
PipeUpdate(raises) ==
    /\ PipeAt("notify")
    /\ last.i <= Len(observers)
    /\ delivered' = Append(delivered, notify(observers, "USER_CREATED", last.user)[last.i])
    /\ last' = IF raises
               THEN PipeRaise(last, "UpdateError")
               ELSE [last EXCEPT !.i = @ + 1]
    /\ UNCHANGED <<heap, storage, clock, observers, sent>>

\* the loop of notify is over
PipeNotifyEnd ==
    /\ PipeAt("notify")
    /\ last.i > Len(observers)
    /\ last' = PipeEnter(last, NextStage("notify"))
    /\ UNCHANGED <<heap, storage, clock, observers, sent, delivered>>

\* user_service.subject.attach(observer), between two calls
PipeAttach(observer) ==
    /\ ~PipeRunning
    /\ observers' = attach(observers, observer)
    /\ UNCHANGED <<heap, storage, clock, sent, delivered, last>>

NextPipeline ==
    \/ \E id \in Ids, name \in Names, email \in Emails :
           PipeCall(id, name, email) /\ UNCHANGED <<cfgVars, threadVars, kept>>
    \/ PipeValidate /\ UNCHANGED <<cfgVars, threadVars, kept>>
    \/ PipeSave /\ UNCHANGED <<cfgVars, threadVars, kept>>
    \/ \E raises \in BOOLEAN : PipeSend(raises) /\ UNCHANGED <<cfgVars, threadVars, kept>>
    \/ \E raises \in BOOLEAN : PipeUpdate(raises) /\ UNCHANGED <<cfgVars, threadVars, kept>>
    \/ PipeNotifyEnd /\ UNCHANGED <<cfgVars, threadVars, kept>>
    \/ \E o \in PipeListeners : PipeAttach(o) /\ UNCHANGED <<cfgVars, threadVars, kept>>

\* the facade as constructed, as in Init
SpecPipeline == Init /\ [][NextPipeline]_vars

-----------------------------------------------------------------------------
(* Claims about the statements of create_user, checked under SpecPipeline *)

\* the update calls the running call has made
PipeDeliveries == SubSeq(delivered, last.delivered0 + 1, Len(delivered))

\* C11: when send raises, the error reaches the caller, no USER_CREATED update
\* is made and the entity stays stored; when an observer's update raises, the
\* error reaches the caller, the observers after the failing one are not
\* called, and the entity stays stored with its notification sent.
C11_FailureAfterPersistence ==
    last.op = "create_user" =>
        /\ last.raised # "" =>
               /\ last.stage = "done"
               /\ last.err = last.raised
               /\ last.ret = None
               /\ get_by_id(storage, last.id) = last.user
        /\ last.raised = "SendError" =>
               /\ PipeDeliveries = <<>>
               /\ Len(sent) = last.sent0 + 1
        /\ last.raised = "UpdateError" =>
               /\ Len(sent) = last.sent0 + 1
               /\ sent[Len(sent)] = send(last.email, <<"Welcome!">>)
               /\ Len(PipeDeliveries) = last.i
               /\ \A j \in 1..Len(observers) :
                      DeliveryCount(PipeDeliveries, observers[j])
                          = IF j <= last.i THEN 1 ELSE 0

\* the first of two observers has raised: the second was not called, the
\* entity is stored
C11_Witness ==
    /\ last.op = "create_user"
    /\ last.raised = "UpdateError"
    /\ last.i = 1
    /\ Len(observers) = 2
    /\ Len(PipeDeliveries) = 1
    /\ DictHas(storage, last.id)

-----------------------------------------------------------------------------
(* The repository used by one caller that keeps what get_all returned.       *)
(* A returned object is a list with items of its own; a dict view would have *)
(* no items of its own and show the mapping as it is when read.              *)

\* get_all returning self._storage.values() itself, a view of the mapping
get_all_view(st) == [kind |-> "view", items |-> <<>>]

\* line 100: list(...) builds a new list from the values of the mapping
get_all_list(st) == [kind |-> "list", items |-> get_all(st)]

\* what the caller reads from the object it holds
KeptItems == IF kept.kind = "view" THEN get_all(storage) ELSE kept.items

\* repository.get_all(), the caller keeping the result
SnapGetAll ==
    /\ kept' = get_all_list(storage)
    /\ last' = [op |-> "get_all", ret |-> get_all(storage), err |-> ""]
    /\ UNCHANGED <<heap, storage, clock>>

NextSnapshot ==
    \/ \E id \in Ids : StoreNewUser(id) /\ UNCHANGED <<busVars, cfgVars, threadVars, kept>>
    \/ \E h \in 1..Len(heap) : StoreSave(h) /\ UNCHANGED <<busVars, cfgVars, threadVars, kept>>
    \/ \E id \in Ids : StoreDelete(id) /\ UNCHANGED <<busVars, cfgVars, threadVars, kept>>
    \/ SnapGetAll /\ UNCHANGED <<busVars, cfgVars, threadVars>>

SpecSnapshot == InitStore /\ [][NextSnapshot]_vars

\* C12: the sequence get_all returns holds exactly the entities stored at the
\* time of the call, one per identifier, and no later save or delete changes
\* what a sequence returned earlier holds.
C12_SnapshotIsolation ==
    [][/\ last'.op = "get_all"
            => /\ Len(KeptItems') = Len(storage)
               /\ \A k \in DictKeys(storage) :
                      /\ InList(get_by_id(storage, k), KeptItems')
                      /\ Cardinality({i \in 1..Len(KeptItems') :
                                         heap[KeptItems'[i]].id = k}) = 1
       /\ (last'.op # "get_all" /\ kept.kind # "none")
            => KeptItems' = KeptItems]_vars

\* a delete has removed an entry that the list returned before still holds
C12_Witness ==
    /\ last.op = "delete"
    /\ kept.kind = "list"
    /\ Len(kept.items) = 2
    /\ Len(storage) = 1

-----------------------------------------------------------------------------
(* Further claims about the repository used on its own, checked under SpecStore *)

\* C13: the clock never going backwards, every entity has updated_at >=
\* created_at, created_at never changes, and save(entity) sets the entity's
\* updated_at to the time it reads and stores the entity; no other call
\* changes updated_at, so a stored entity's updated_at is the time of its
\* last save.
C13_TimestampInvariant ==
    [][/\ \A h \in 1..Len(heap') : heap'[h].updated_at >= heap'[h].created_at
       /\ \A h \in 1..Len(heap) : heap'[h].created_at = heap[h].created_at
       /\ last'.op = "save"
            => /\ clock' >= clock
               /\ heap'[last'.h].updated_at = clock'
               /\ get_by_id(storage', last'.id) = last'.h
               /\ \A h \in (1..Len(heap)) \ {last'.h} :
                      heap'[h].updated_at = heap[h].updated_at
       /\ last'.op # "save"
            => \A h \in 1..Len(heap) : heap'[h].updated_at = heap[h].updated_at]_vars

\* an entity saved at a time later than the time it was constructed
C13_Witness ==
    /\ last.op = "save"
    /\ heap[last.h].created_at = 0
    /\ heap[last.h].updated_at = MaxClock
    /\ get_by_id(storage, last.id) = last.h

-----------------------------------------------------------------------------
(* Further claims about the facade, checked under Spec and SpecPipeline *)

\* C14: get_user(id) never raises; it returns the entity stored under id, or
\* None when id is not a key, and leaves the mapping, the entities, the
\* observer list and the notifications and events emitted so far unchanged.
C14_LookupReadOnly ==
    [][last'.op = "get_user"
         => /\ last'.err = ""
            /\ DictHas(storage, last'.id)
                   => /\ last'.ret # None
                      /\ heap[last'.ret].id = last'.id
                      /\ InList(last'.ret, get_all(storage))
            /\ ~DictHas(storage, last'.id) => last'.ret = None
            /\ storage' = storage
            /\ heap' = heap
            /\ observers' = observers
            /\ sent' = sent
            /\ delivered' = delivered]_vars

\* a lookup of an identifier that is not stored while another one is
C14_Witness ==
    /\ last.op = "get_user"
    /\ last.ret = None
    /\ Len(storage) > 0
    /\ Len(delivered) > 0

\* C15: a create_user call saves before it sends and sends before it
\* publishes: once its notification is sent the entity is stored, and when an
\* observer receives its USER_CREATED (with the entity as payload) the entity
\* is stored and the one notification to the given email is sent; a call that
\* succeeds has made one save, one send and one update per attached observer
\* in list order, so exactly one on the logging observer.
C15_PipelineOrdering ==
    [][last'.op = "create_user" =>
        /\ Len(sent') > last'.sent0 => get_by_id(storage', last'.id) = last'.user
        /\ Len(sent') \in {last'.sent0, last'.sent0 + 1}
        /\ Len(PipeDeliveries') > 0 =>
               /\ get_by_id(storage', last'.id) = last'.user
               /\ Len(sent') = last'.sent0 + 1
               /\ sent'[Len(sent')] = send(last'.email, <<"Welcome!">>)
        /\ \A j \in 1..Len(PipeDeliveries') :
               PipeDeliveries'[j] = notify(observers', "USER_CREATED", last'.user)[j]
        /\ (PipeRunning /\ last'.stage = "done" /\ last'.err = "") =>
               /\ last'.ret = last'.user
               /\ get_by_id(storage', last'.id) = last'.user
               /\ Len(sent') = last'.sent0 + 1
               /\ PipeDeliveries' = notify(observers', "USER_CREATED", last'.user)
               /\ DeliveryCount(PipeDeliveries', "log") = 1]_vars

\* the second successful call, with two observers attached
C15_Witness ==
    /\ last.op = "create_user"
    /\ last.stage = "done"
    /\ last.err = ""
    /\ last.sent0 = 1
    /\ Len(observers) = 2
    /\ Len(PipeDeliveries) = 2

-----------------------------------------------------------------------------
(* Further claims about the Subject, checked under SpecBus *)

\* C16: detach of an attached listener removes that listener and nothing else,
\* the others keeping their order; detach of a listener that is not attached
\* leaves the list as it is; notify makes no update call on a listener that is
\* not attached; attaching a listener that is not attached puts it last.
C16_Detach ==
    [][/\ last'.op = "detach"
            => /\ observers' = SelectSeq(observers, LAMBDA o : o # last'.observer)
               /\ ~InList(last'.observer, observers')
               /\ InList(last'.observer, observers)
                      => Len(observers') = Len(observers) - 1
               /\ ~InList(last'.observer, observers) => observers' = observers
               /\ delivered' = delivered
       /\ last'.op = "notify"
            => \A o \in Listeners :
                   ~InList(o, observers) => DeliveryCount(NewDeliveries, o) = 0
       /\ (last'.op = "attach" /\ ~InList(last'.observer, observers))
            => observers' = Append(observers, last'.observer)]_vars

\* a listener that has received an event is detached, two others staying
C16_Witness ==
    /\ last.op = "detach"
    /\ Len(observers) = 2
    /\ ~InList(last.observer, observers)
    /\ DeliveryCount(delivered, last.observer) >= 1

-----------------------------------------------------------------------------
(* Subject.notify with update callbacks that call attach and detach on the
   Subject. The for loop of line 203 walks the live list by index: each turn
   takes the element at the index, if there is one, and moves the index on.
   The frame of the running notify is kept in last. *)

ReRunning == last.op = "notify" /\ ~last.done

\* attach between two notify calls
ReAttach(observer) ==
    /\ ~ReRunning
    /\ observers' = attach(observers, observer)
    /\ last' = [op |-> "attach", observer |-> observer]
    /\ UNCHANGED <<sent, delivered>>

\* detach between two notify calls
ReDetach(observer) ==
    /\ ~ReRunning
    /\ observers' = detach(observers, observer)
    /\ last' = [op |-> "detach", observer |-> observer]
    /\ UNCHANGED <<sent, delivered>>

\* notify(event, data) is called: the iterator of line 203 is created
ReNotify(event, data) ==
    /\ ~ReRunning
    /\ Len(delivered) + Len(observers) + MaxChanges <= MaxDelivered
    /\ last' = [op |-> "notify", event |-> event, data |-> data, i |-> 1,
                start |-> observers, removed |-> {}, changes |-> 0,
                delivered0 |-> Len(delivered), done |-> FALSE]
    /\ UNCHANGED <<observers, sent, delivered>>

\* lines 203-204, one turn: the element at the index is taken and its update called
ReUpdate ==
    /\ ReRunning
    /\ last.i <= Len(observers)
    /\ delivered' = Append(delivered, [observer |-> observers[last.i],
                                       event |-> last.event, data |-> last.data])
    /\ last' = [last EXCEPT !.i = @ + 1]
    /\ UNCHANGED <<observers, sent>>

\* the update that is running calls detach(observer) on the Subject
ReCallbackDetach(observer) ==
    /\ ReRunning
    /\ last.i > 1
    /\ last.changes < MaxChanges
    /\ observers' = detach(observers, observer)
    /\ last' = [last EXCEPT !.changes = @ + 1,
                            !.removed = IF InList(observer, observers)
                                        THEN @ \cup {observer} ELSE @]
    /\ UNCHANGED <<sent, delivered>>

\* the update that is running calls attach(observer) on the Subject
ReCallbackAttach(observer) ==
    /\ ReRunning
    /\ last.i > 1
    /\ last.changes < MaxChanges
    /\ observers' = attach(observers, observer)
    /\ last' = [last EXCEPT !.changes = @ + 1]
    /\ UNCHANGED <<sent, delivered>>

\* line 203: the index is past the end of the list, the loop is over
ReEnd ==
    /\ ReRunning
    /\ last.i > Len(observers)
    /\ last' = [last EXCEPT !.done = TRUE]
    /\ UNCHANGED <<observers, sent, delivered>>

NextReentrant ==
    \/ \E o \in Listeners : ReAttach(o) /\ UNCHANGED <<storeVars, cfgVars, threadVars, kept>>
    \/ \E o \in Listeners : ReDetach(o) /\ UNCHANGED <<storeVars, cfgVars, threadVars, kept>>
    \/ \E e \in Events, d \in Payloads :
           ReNotify(e, d) /\ UNCHANGED <<storeVars, cfgVars, threadVars, kept>>
    \/ ReUpdate /\ UNCHANGED <<storeVars, cfgVars, threadVars, kept>>
    \/ \E o \in Listeners :
           ReCallbackDetach(o) /\ UNCHANGED <<storeVars, cfgVars, threadVars, kept>>
    \/ \E o \in Listeners :
           ReCallbackAttach(o) /\ UNCHANGED <<storeVars, cfgVars, threadVars, kept>>
    \/ ReEnd /\ UNCHANGED <<storeVars, cfgVars, threadVars, kept>>

SpecReentrant == InitBus /\ [][NextReentrant]_vars

\* the update calls of the notify in last
ReDeliveries == SubSeq(delivered, last.delivered0 + 1, Len(delivered))

\* the listeners attached when the notify in last started that no callback detached
ReSurvivors == {o \in Listeners : InList(o, last.start) /\ o \notin last.removed}

\* C17: when notify has returned, every listener that was attached when it
\* started and that no callback of this notify detached has received the event
\* exactly once, and these listeners were called in attachment order.
C17_ReentrantNotify ==
    (last.op = "notify" /\ last.done) =>
        /\ \A o \in ReSurvivors : DeliveryCount(ReDeliveries, o) = 1
        /\ \A a, b \in ReSurvivors :
               Position(last.start, a) < Position(last.start, b)
                   => Position([j \in 1..Len(ReDeliveries) |-> ReDeliveries[j].observer], a)
                        < Position([j \in 1..Len(ReDeliveries) |-> ReDeliveries[j].observer], b)

-----------------------------------------------------------------------------
(* A further claim about ConfigManager under threads, checked under SpecSingleton *)

\* C18: however threads that call ConfigManager() interleave, no call raises,
\* and every call that has returned has returned an instance that has its
\* _initialized flag and its _config mapping.
C18_SafeConstruction ==
    \A t \in Threads :
        /\ tpc[t] # "raised"
        /\ tpc[t] = "done" =>
               /\ cfgObjs[tcall[t].self].has_initialized
               /\ cfgObjs[tcall[t].self].has_config

-----------------------------------------------------------------------------
(* Further claims about the stored entries, checked under SpecStore and Spec *)

\* C19: every entry of the repository mapping is stored under the identifier of
\* the entity it holds, and the mapping has at most one entry per identifier.
C19_KeyConsistency ==
    /\ \A i \in 1..Len(storage) : heap[storage[i].val].id = storage[i].key
    /\ \A id \in Ids : EntryCount(storage, id) <= 1

\* two identifiers stored, the last save made for an identifier that a second
\* entity has too
C19_Witness ==
    /\ last.op = "save"
    /\ Len(storage) = 2
    /\ \E h \in 1..Len(heap) : h # last.h /\ heap[h].id = last.id

\* C20: create_user never saves an entity whose identifier is empty: the
\* mapping has no entry under the empty identifier.
C20_NoEmptyIdentifier ==
    ~DictHas(storage, "")

====
